---- MODULE Spec2Model ----
(***************************************************************************)
(* A model of auto-video-grabber: CourseDownloader.download (the           *)
(* orchestrator), BaseScraper (browser session, network capture, DOM       *)
(* extraction) and VideoDownloader (the download engine).                  *)
(*                                                                         *)
(* Environment: the browser, the network, the transcoder and the page can  *)
(* fail wherever the code awaits them.  Writes to the local file system    *)
(* (mkdir, writeFile of manifest.json / index.html) are taken to succeed.  *)
(*                                                                         *)
(* A URL is a sequence of tokens: the scheme first ("blob:", "https:"),    *)
(* then path tokens; String.includes(m) is membership of the token m,      *)
(* String.startsWith("blob:") is a test of the first token.                *)
(***************************************************************************)
EXTENDS Integers, Sequences, FiniteSets, TLC

\* ------------------------------------------------------------------ bounds
MaxLessons == 2
MaxEvents == 2

\* ------------------------------------------------------------------ values
NoUrl == <<>>
UrlBlob == <<"blob:", "a">>
UrlHls == <<"https:", "/", "a", ".m3u8">>
UrlMp4 == <<"https:", "/", "video", "/", "b", ".mp4">>
UrlBlobHls == <<"blob:", "c", ".m3u8">>

\* URLs the pages of a course may request or carry in their DOM
PageUrls == {UrlBlob, UrlHls, UrlMp4}
\* URLs a client of the engine may pass
EngineUrls == {UrlBlob, UrlHls, UrlMp4, UrlBlobHls}

ContentTypes == {"video/mp4", "application/vnd.apple.mpegurl", "text/html"}

Range(s) == {s[k] : k \in 1..Len(s)}

\* String.prototype.includes on the token model
Includes(url, marker) == marker \in Range(url)

\* String.prototype.startsWith('blob:')
StartsWithBlob(url) == Len(url) > 0 /\ url[1] = "blob:"

\* the needles of responseListener that a content type contains
CtParts(ct) ==
  CASE ct = "video/mp4" -> {"video/"}
    [] ct = "application/vnd.apple.mpegurl" -> {"application/vnd.apple.mpegurl", "mpegurl"}
    [] ct = "application/x-mpegURL" -> {"application/x-mpegURL", "x-mpegURL"}
    [] ct = "application/dash+xml" -> {"application/dash+xml", "dash"}
    [] OTHER -> {}

\* contentType.includes(needle) for the content types of the model
CtIncludes(ct, needle) == needle \in CtParts(ct)

\* ------------------------------------------------------------------ names and paths
\* a string is a sequence of tokens; a token is one character, or a run of
\* characters none of which is a separator or a character of a class tested
\* by the code.  A path is the sequence of its components under the course
\* directory, each component a string.

\* String.prototype.split(sep) on the token model
RECURSIVE Split(_, _)
Split(s, sep) ==
  IF sep \notin Range(s) THEN <<s>>
  ELSE LET k == CHOOSE j \in 1..Len(s) : s[j] = sep /\ \A m \in 1..(j - 1) : s[m] # sep
       IN <<SubSeq(s, 1, k - 1)>> \o Split(SubSeq(s, k + 1, Len(s)), sep)

\* Array.prototype.pop() of a non-empty array
Pop(a) == a[Len(a)]

\* src.split('/').pop().split('?')[0]
Basename(url) == Split(Pop(Split(url, "/")), "?")[1]

\* src.startsWith('http')
StartsWithHttp(url) == Len(url) > 0 /\ url[1] \in {"http:", "https:"}

\* the character class of sanitizeFilename's replace
ReplacedChars == {"<", ">", ":", "\"", "/", "\\", "|", "?", "*"}

\* the length sanitizeFilename cuts its input to
MaxNameLength == 200

\* filename.replace(/[<>:"/\\|?*]/g, '-')
ReplaceChars(name) == [k \in 1..Len(name) |-> IF name[k] \in ReplacedChars THEN "-" ELSE name[k]]

\* String.prototype.substring(0, n)
Substring(name, n) == SubSeq(name, 1, IF Len(name) < n THEN Len(name) ELSE n)

\* the sanitize-filename package with its default replacement '': it removes
\* the illegal characters and the trailing dots and spaces, and so turns the
\* names made of dots alone into the empty name.  (Its cut to 255 bytes is
\* not reached by a name of at most 200 one-byte characters.)
RECURSIVE StripTrailing(_)
StripTrailing(name) ==
  IF Len(name) > 0 /\ name[Len(name)] \in {".", " "}
  THEN StripTrailing(SubSeq(name, 1, Len(name) - 1))
  ELSE name

IsLegal(c) == c \notin {"/", "?", "<", ">", "\\", ":", "*", "|", "\""}

sanitize(name) == StripTrailing(SelectSeq(name, IsLegal))

\* the same without the cut to 200 characters
sanitizeFilenameNoSubstring(filename) == sanitize(ReplaceChars(filename))

\* FileManager.sanitizeFilename
sanitizeFilename(filename) == sanitize(Substring(ReplaceChars(filename), MaxNameLength))

\* path.join(dir, name) for a name of one component
PathJoin(dir, name) == Append(dir, name)

\* a relative reference resolved against the directory of the file holding it
RECURSIVE ResolveSegments(_, _)
ResolveSegments(dir, segs) ==
  IF segs = <<>> THEN dir
  ELSE LET seg == Head(segs)
           next == IF seg = <<"..">> THEN (IF dir = <<>> THEN dir ELSE SubSeq(dir, 1, Len(dir) - 1))
                   ELSE IF seg = <<>> \/ seg = <<".">> THEN dir
                   ELSE Append(dir, seg)
       IN ResolveSegments(next, Tail(segs))

Resolve(dir, ref) == ResolveSegments(dir, Split(ref, "/"))

\* ------------------------------------------------------------------ state
VARIABLES
  pc,            \* position of download() in courseDownloader.js
  requiresAuth,  \* websiteConfig.requiresAuth
  browser,       \* scraper.browser: "null", "open", "closed"
  closeCalls,    \* number of calls of scraper.close()
  page,          \* the page that is loaded: [kind, idx]
  courseDir,     \* createCourseStructure has run
  lessons,       \* result of extractLessons
  i,             \* loop index of the lesson loop
  listeners,     \* capture listeners attached to the page
  videoUrls,     \* the list captureVideoUrlsFromNetwork builds
  events,        \* network events seen in this capture window
  networkVideos, \* what the capture returned to download()
  videoUrl,      \* the selected video URL (NoUrl for null)
  manifest,      \* the in-memory manifest
  manifestWrites,\* writes of manifest.json
  indexWrites,   \* writes of index.html
  result,        \* "none", "success" (resolved), "rejected"
  cur,           \* what happened in the lesson being processed
  threw,         \* lesson indices whose try block threw
  cause,         \* what threw into download()'s catch: "none", "init", "nav", "video", "html"
  vpc,           \* position inside VideoDownloader.downloadVideo
  vurl,          \* its videoUrl argument
  vkey,          \* its destination file (by title)
  fetched,       \* the call issued an HTTP request
  transcoded,    \* the call ran the transcoder
  disk,          \* video files on disk: "absent", "partial", "complete"
  authed,        \* waitForAuth has received its input
  docs,          \* const docs of download(): the extracted document links
  docDisk,       \* document files on disk: [name, origin] (whose bytes they hold)
  imgDisk,       \* image files on disk: their paths under the course directory
  h              \* a function of the code applied to drawn inputs: [op, ...]

vars == <<pc, requiresAuth, browser, closeCalls, page, courseDir, lessons, i,
          listeners, videoUrls, events, networkVideos, videoUrl, manifest,
          manifestWrites, indexWrites, result, cur, threw, cause,
          vpc, vurl, vkey, fetched, transcoded, disk,
          authed, docs, docDisk, imgDisk, h>>

orchVars == <<pc, requiresAuth, browser, closeCalls, page, courseDir, lessons, i,
              listeners, videoUrls, events, networkVideos, videoUrl, manifest,
              manifestWrites, indexWrites, result, cur, threw, cause>>

engineVars == <<vpc, vurl, vkey, fetched, transcoded, disk>>

auxVars == <<authed, docs, docDisk, imgDisk, h>>

\* ------------------------------------------------------------------ images and documents
ImgUrl == <<"http:", "/", "cdn", "/", "pic.jpg", "?", "v=2">>
ImgUrlNoName == <<"https:", "/", "cdn", "/">>
DocUrlA == <<"https:", "/", "h1", "/", "a.pdf">>
DocUrlA2 == <<"https:", "/", "h2", "/", "a.pdf">>
DocUrlB == <<"https:", "/", "h1", "/", "b.pdf">>

\* the <img> sources a lesson page may carry
ImgLists == {<<>>, <<ImgUrl>>}

\* one element of extractDocuments' result: { href, text, filename }
DocLink(href) == [href |-> href, filename |-> Pop(Split(href, "/"))]

\* the document links a page may carry
DocLists == {<<>>, <<DocLink(DocUrlA)>>}

\* src.split('/').pop().split('?')[0] || `image_${i}.jpg`, i counted from 0
ImageName(url, k) ==
  IF Basename(url) # <<>> THEN Basename(url) ELSE <<"image_", ToString(k), ".jpg">>

\* imagePath of downloadImages(page, outputPath) for the k-th listed image
ImagePath(outputPath, url, k) == PathJoin(PathJoin(outputPath, <<"images">>), ImageName(url, k))

\* the loop of downloadImages over the list images, from its k-th element on:
\* a file that exists is skipped, a failed request is logged
RECURSIVE DownloadImagesFrom(_, _, _, _, _, _)
DownloadImagesFrom(outputPath, images, k, okAt, d, n) ==
  IF k > Len(images) THEN [disk |-> d, fetches |-> n]
  ELSE LET imagePath == ImagePath(outputPath, images[k], k - 1)
       IN IF imagePath \in d
          THEN DownloadImagesFrom(outputPath, images, k + 1, okAt, d, n)
          ELSE DownloadImagesFrom(outputPath, images, k + 1, okAt,
                                  IF okAt[k] THEN d \cup {imagePath} ELSE d, n + 1)

\* page.evaluate of downloadImages: the sources that start with http
HttpImages(srcs) == SelectSeq(srcs, StartsWithHttp)

\* docFilePath of downloadDocument(docUrl, outputPath, filename)
DocFilePath(outputPath, docUrl, filename) ==
  PathJoin(outputPath, sanitizeFilename(IF filename # <<>> THEN filename ELSE Basename(docUrl)))

FileOnDisk(d, path) == \E f \in d : f.path = path

\* fileManager.getFileSize(docPath) of a file that is there: some size, the
\* same for every file of the model
FileSize == 1

\* the loop of downloadDocuments over documentList, from its k-th element on:
\* downloadDocument returns the path of a file that exists without a request,
\* else requests and saves it; a failure is logged and the document left out
RECURSIVE DownloadDocumentsFrom(_, _, _, _, _, _)
DownloadDocumentsFrom(documentList, k, okAt, d, downloadedDocs, n) ==
  IF k > Len(documentList) THEN [out |-> downloadedDocs, disk |-> d, fetches |-> n]
  ELSE LET doc == documentList[k]
           docPath == DocFilePath(<<<<"documents">>>>, doc.href, doc.filename)
           entry == [filename |-> doc.filename, path |-> docPath, originalUrl |-> doc.href,
                     size |-> FileSize]
       IN IF FileOnDisk(d, docPath)
          THEN DownloadDocumentsFrom(documentList, k + 1, okAt, d,
                                     Append(downloadedDocs, entry), n)
          ELSE IF okAt[k]
          THEN DownloadDocumentsFrom(documentList, k + 1, okAt,
                                     d \cup {[path |-> docPath, origin |-> doc.href]},
                                     Append(downloadedDocs, entry), n + 1)
          ELSE DownloadDocumentsFrom(documentList, k + 1, okAt, d, downloadedDocs, n + 1)

\* a loop that ends at the first document whose request fails
DownloadDocumentsStopAtFailure(documentList, okAt, d) ==
  LET failing == {k \in 1..Len(documentList) : ~okAt[k]}
      stop == IF failing = {} THEN Len(documentList) + 1
              ELSE CHOOSE k \in failing : \A j \in failing : k <= j
  IN DownloadDocumentsFrom(SubSeq(documentList, 1, stop - 1), 1, okAt, d, <<>>, 0)

\* DocumentDownloader.downloadDocuments(documentList, outputPath)
DownloadDocuments(documentList, okAt, d) ==
  DownloadDocumentsFrom(documentList, 1, okAt, d, <<>>, 0)

\* the image and document files a complete run of the course leaves behind
AllImageFiles ==
  UNION {{ImagePath(<<<<"html">>>>, HttpImages(l)[k], k - 1) : k \in 1..Len(HttpImages(l))} :
           l \in ImgLists}
AllDocFiles ==
  UNION {{[path |-> DocFilePath(<<<<"documents">>>>, l[k].href, l[k].filename),
           origin |-> l[k].href] : k \in 1..Len(l)} : l \in DocLists}

\* destination files of videos: 0 is <courseTitle>.mp4, k is <k>_<title>.mp4
VideoKeys == 0..MaxLessons

EmptyManifest == [lessons |-> <<>>, videos |-> <<>>, documents |-> <<>>]

\* cur: the DOM's video src as the selection saw it, where the selected URL
\* came from, the URL given to downloadVideo, the blob warning, the steps
\* taken, whether an image or document was requested from the network, the
\* documents the page listed and the documents recorded for it, the type
\* the capture gave the selected entry
FreshCur == [dom |-> NoUrl, src |-> "none", video |-> "none",
             dlUrl |-> NoUrl, warned |-> FALSE,
             html |-> "none", images |-> FALSE, docs |-> FALSE,
             fetch |-> FALSE, listed |-> 0, recorded |-> 0, type |-> "none"]

\* the lesson list is empty: the single page branch
Single == lessons = <<>>

\* lessonIndex and destination file of the lesson in hand
LessonIndex == IF Single THEN 0 ELSE i
TitleKey == IF Single THEN 0 ELSE i + 1

Init ==
  /\ pc = "init"
  /\ requiresAuth \in BOOLEAN
  /\ browser = "null"
  /\ closeCalls = 0
  /\ page = [kind |-> "blank", idx |-> 0]
  /\ courseDir = FALSE
  /\ lessons = <<>>
  /\ i = 0
  /\ listeners = {}
  /\ videoUrls = <<>>
  /\ events = 0
  /\ networkVideos = <<>>
  /\ videoUrl = NoUrl
  /\ manifest = EmptyManifest
  /\ manifestWrites = 0
  /\ indexWrites = 0
  /\ result = "none"
  /\ cur = FreshCur
  /\ threw = {}
  /\ cause = "none"
  /\ vpc = "idle"
  /\ vurl = NoUrl
  /\ vkey = 0
  /\ fetched = FALSE
  /\ transcoded = FALSE
  /\ \E pre \in {{}, {1}, VideoKeys} :
       /\ disk = [k \in VideoKeys |-> IF k \in pre THEN "complete" ELSE "absent"]
       /\ docDisk = IF pre = VideoKeys THEN AllDocFiles ELSE {}
       /\ imgDisk = IF pre = VideoKeys THEN AllImageFiles ELSE {}
  /\ authed = FALSE
  /\ docs = <<>>
  /\ h = [op |-> "none"]

\* ------------------------------------------------------------------ session
\* BaseScraper.initialize: launch may fail (no browser), or a later call
\* (newPage, setUserAgent, setViewport) may fail with the browser launched.
Initialize ==
  /\ pc = "init"
  /\ \/ /\ browser' = "null"
        /\ pc' = "catch"
        /\ cause' = "init"
     \/ /\ browser' = "open"
        /\ pc' = "catch"
        /\ cause' = "init"
     \/ /\ browser' = "open"
        /\ pc' = "nav"
        /\ cause' = cause
  /\ UNCHANGED <<requiresAuth, closeCalls, page, courseDir, lessons, i, listeners,
                 videoUrls, events, networkVideos, videoUrl, manifest,
                 manifestWrites, indexWrites, result, cur, threw>>
  /\ UNCHANGED engineVars
  /\ UNCHANGED auxVars

\* BaseScraper.navigateTo: true and the page loaded, or false (goto threw)
NavigateTo(kind, idx, ok) ==
  IF ok THEN [kind |-> kind, idx |-> idx] ELSE page

\* variant: the result of navigateTo not looked at
AfterCourseNavIgnoreFailure(navigated, auth) == IF auth THEN "auth" ELSE "title"

\* if (!navigated) throw ...; if (websiteConfig.requiresAuth) waitForAuth()
AfterCourseNav(navigated, auth) ==
  IF ~navigated THEN "catch" ELSE IF auth THEN "auth" ELSE "title"

\* download(): navigate to the course page; false throws
NavigateCourse ==
  /\ pc = "nav"
  /\ \E ok \in BOOLEAN :
       /\ page' = NavigateTo("course", 0, ok)
       /\ pc' = AfterCourseNav(ok, requiresAuth)
       /\ cause' = IF ok THEN cause ELSE "nav"
  /\ UNCHANGED <<requiresAuth, browser, closeCalls, courseDir, lessons, i, listeners,
                 videoUrls, events, networkVideos, videoUrl, manifest,
                 manifestWrites, indexWrites, result, cur, threw>>
  /\ UNCHANGED engineVars
  /\ UNCHANGED auxVars

\* the lines the operator may type
Lines == {"", "y", "no"}

\* the wait that would go on only after the line "y"
AfterAuthOnYes(line) == IF line = "y" THEN "title" ELSE "catch"

\* process.stdin.once('data', () => resolve()): the chunk is not looked at
AfterAuth(line) == "title"

\* BaseScraper.waitForAuth: resolves on one chunk of stdin
WaitForAuth ==
  /\ pc = "auth"
  /\ \E line \in Lines : pc' = AfterAuth(line)
  /\ authed' = TRUE
  /\ UNCHANGED <<requiresAuth, browser, closeCalls, page, courseDir, lessons, i,
                 listeners, videoUrls, events, networkVideos, videoUrl, manifest,
                 manifestWrites, indexWrites, result, cur, threw, cause>>
  /\ UNCHANGED engineVars
  /\ UNCHANGED <<docs, docDisk, imgDisk, h>>

\* BaseScraper.getCourseTitle: never throws
GetCourseTitle ==
  /\ pc = "title"
  /\ pc' = "structure"
  /\ UNCHANGED <<requiresAuth, browser, closeCalls, page, courseDir, lessons, i,
                 listeners, videoUrls, events, networkVideos, videoUrl, manifest,
                 manifestWrites, indexWrites, result, cur, threw, cause>>
  /\ UNCHANGED engineVars
  /\ UNCHANGED auxVars

\* FileManager.createCourseStructure
CreateCourseStructure ==
  /\ pc = "structure"
  /\ courseDir' = TRUE
  /\ pc' = "extract"
  /\ UNCHANGED <<requiresAuth, browser, closeCalls, page, lessons, i,
                 listeners, videoUrls, events, networkVideos, videoUrl, manifest,
                 manifestWrites, indexWrites, result, cur, threw, cause>>
  /\ UNCHANGED engineVars
  /\ UNCHANGED auxVars

\* BaseScraper.extractLessons: n entries with index 0..n-1 (none on a miss)
LessonList(n) == [k \in 1..n |-> [index |-> k - 1]]

\* download(): extract the lessons, start the manifest, choose the branch
ExtractLessons ==
  /\ pc = "extract"
  /\ \E n \in 0..MaxLessons :
       /\ lessons' = LessonList(n)
       /\ pc' = IF n > 0 THEN "loop" ELSE "capture"
  /\ manifest' = EmptyManifest
  /\ i' = 0
  /\ cur' = FreshCur
  /\ UNCHANGED <<requiresAuth, browser, closeCalls, page, courseDir,
                 listeners, videoUrls, events, networkVideos, videoUrl,
                 manifestWrites, indexWrites, result, threw, cause>>
  /\ UNCHANGED engineVars
  /\ UNCHANGED auxVars

\* ------------------------------------------------------------------ lesson loop
\* variant: the loop body without its try/catch
ThrownToOuterCatch == "catch"

\* where an exception of a lesson step lands: the lesson's catch in the
\* loop, download()'s own catch in the single page branch
Thrown == IF Single THEN "catch" ELSE "lesson_catch"

\* for (let i = 0; i < lessons.length; i++)
LoopTest ==
  /\ pc = "loop"
  /\ pc' = IF i < Len(lessons) THEN "lesson_nav" ELSE "manifest"
  /\ cur' = FreshCur
  /\ UNCHANGED <<requiresAuth, browser, closeCalls, page, courseDir, lessons, i,
                 listeners, videoUrls, events, networkVideos, videoUrl, manifest,
                 manifestWrites, indexWrites, result, threw, cause>>
  /\ UNCHANGED engineVars
  /\ UNCHANGED auxVars

\* await scraper.navigateTo(lesson.url): the result is not looked at
NavigateLesson ==
  /\ pc = "lesson_nav"
  /\ \E ok \in BOOLEAN : page' = NavigateTo("lesson", i, ok)
  /\ pc' = "capture"
  /\ UNCHANGED <<requiresAuth, browser, closeCalls, courseDir, lessons, i,
                 listeners, videoUrls, events, networkVideos, videoUrl, manifest,
                 manifestWrites, indexWrites, result, cur, threw, cause>>
  /\ UNCHANGED engineVars
  /\ UNCHANGED auxVars

\* ------------------------------------------------------------------ capture
\* captureVideoUrlsFromNetwork, up to the polling loop: attach both
\* listeners, try to play the video (a failure is caught)
\* a removal that leaves the response listener attached
RemoveRequestListenerOnly(attached) == attached \ {"request"}

\* this.page.off('request', requestListener); this.page.off('response', responseListener)
RemoveListeners(attached) == attached \ {"request", "response"}

CaptureBegin ==
  /\ pc = "capture"
  /\ videoUrls' = <<>>
  /\ events' = 0
  /\ listeners' = {"request", "response"}
  /\ pc' = "cap_wait"
  /\ UNCHANGED <<requiresAuth, browser, closeCalls, page, courseDir, lessons, i,
                 networkVideos, videoUrl, manifest,
                 manifestWrites, indexWrites, result, cur, threw, cause>>
  /\ UNCHANGED engineVars
  /\ UNCHANGED auxVars

\* requestListener's test of the URL
RequestQualifies(url) ==
  \/ Includes(url, ".m3u8")
  \/ Includes(url, ".mpd")
  \/ Includes(url, "/manifest/")
  \/ Includes(url, "video") /\ (Includes(url, ".mp4") \/ Includes(url, ".ts"))

RequestType(url) ==
  IF Includes(url, ".m3u8") THEN "hls"
  ELSE IF Includes(url, ".mpd") THEN "dash" ELSE "direct"

\* requestListener: push without looking at the list
OnRequest(list, url) ==
  IF RequestQualifies(url) THEN Append(list, [url |-> url, type |-> RequestType(url)])
  ELSE list

\* responseListener's test of the content type
ResponseQualifies(ct) ==
  \/ CtIncludes(ct, "application/vnd.apple.mpegurl")
  \/ CtIncludes(ct, "application/x-mpegURL")
  \/ CtIncludes(ct, "video/")
  \/ CtIncludes(ct, "application/dash+xml")

ResponseType(ct) ==
  IF CtIncludes(ct, "mpegurl") \/ CtIncludes(ct, "x-mpegURL") THEN "hls"
  ELSE IF CtIncludes(ct, "dash") THEN "dash" ELSE "direct"

\* responseListener: push unless the URL is in the list
OnResponse(list, url, ct) ==
  IF ResponseQualifies(ct) /\ ~(\E k \in 1..Len(list) : list[k].url = url)
  THEN Append(list, [url |-> url, type |-> ResponseType(ct)])
  ELSE list

\* the page emits 'request' while the listener is attached
NetRequest ==
  /\ "request" \in listeners
  /\ events < MaxEvents
  /\ \E url \in PageUrls : videoUrls' = OnRequest(videoUrls, url)
  /\ events' = events + 1
  /\ UNCHANGED <<pc, requiresAuth, browser, closeCalls, page, courseDir, lessons, i,
                 listeners, networkVideos, videoUrl, manifest,
                 manifestWrites, indexWrites, result, cur, threw, cause>>
  /\ UNCHANGED engineVars
  /\ UNCHANGED auxVars

\* the page emits 'response' while the listener is attached
NetResponse ==
  /\ "response" \in listeners
  /\ events < MaxEvents
  /\ \E url \in PageUrls, ct \in ContentTypes :
       videoUrls' = OnResponse(videoUrls, url, ct)
  /\ events' = events + 1
  /\ UNCHANGED <<pc, requiresAuth, browser, closeCalls, page, courseDir, lessons, i,
                 listeners, networkVideos, videoUrl, manifest,
                 manifestWrites, indexWrites, result, cur, threw, cause>>
  /\ UNCHANGED engineVars
  /\ UNCHANGED auxVars

\* the polling loop ends (a hit, or the timeout with an empty list); the
\* listeners are removed and the list is returned
CaptureEnd ==
  /\ pc = "cap_wait"
  /\ listeners' = RemoveListeners(listeners)
  /\ networkVideos' = videoUrls
  /\ videoUrls' = <<>>
  /\ events' = 0
  /\ pc' = "select"
  /\ UNCHANGED <<requiresAuth, browser, closeCalls, page, courseDir, lessons, i,
                 videoUrl, manifest,
                 manifestWrites, indexWrites, result, cur, threw, cause>>
  /\ UNCHANGED engineVars
  /\ UNCHANGED auxVars

\* ------------------------------------------------------------------ selection
\* BaseScraper.extractVideos on the loaded page: one entry per video
\* element, its sources; empty when the selector wait or the evaluation fails
ExtractVideos(dom, found) ==
  IF ~found THEN <<>>
  ELSE IF dom = NoUrl THEN << [sources |-> <<>>] >>
  ELSE << [sources |-> << [src |-> dom] >>] >>

\* the selection of download(): the first captured entry, else the first
\* source of the first DOM video, else null
SelectVideoUrl(net, videos) ==
  IF Len(net) > 0 THEN net[1].url
  ELSE IF Len(videos) > 0 /\ Len(videos[1].sources) > 0 THEN videos[1].sources[1].src
  ELSE NoUrl

SelectVideo ==
  /\ pc = "select"
  /\ \E dom \in PageUrls \cup {NoUrl}, found \in BOOLEAN :
       /\ found \/ dom = NoUrl
       /\ videoUrl' = SelectVideoUrl(networkVideos, ExtractVideos(dom, found))
       /\ cur' = [cur EXCEPT !.dom = dom,
                              !.src = IF Len(networkVideos) > 0 THEN "network"
                                      ELSE IF videoUrl' # NoUrl THEN "dom" ELSE "none",
                              !.type = IF Len(networkVideos) > 0 THEN networkVideos[1].type
                                       ELSE "none"]
  /\ pc' = "video"
  /\ UNCHANGED <<requiresAuth, browser, closeCalls, page, courseDir, lessons, i,
                 listeners, videoUrls, events, networkVideos, manifest,
                 manifestWrites, indexWrites, result, threw, cause>>
  /\ UNCHANGED engineVars
  /\ UNCHANGED auxVars

\* ------------------------------------------------------------------ video
\* variant: the scheme test left out
ShouldDownloadAnyUrl(url) == url # NoUrl

\* a test that lets null through
ShouldDownloadAlways(url) == TRUE

\* if (videoUrl && !videoUrl.startsWith('blob:'))
ShouldDownload(url) == url # NoUrl /\ ~StartsWithBlob(url)

\* else if (videoUrl && videoUrl.startsWith('blob:'))
ShouldWarnBlob(url) == url # NoUrl /\ StartsWithBlob(url)

\* variant: the entry assigned, not pushed
PushVideoAssign(m, entry) == [m EXCEPT !.videos = <<entry>>]

\* manifest.videos.push({title, path, lessonIndex})
PushVideo(m, entry) == [m EXCEPT !.videos = Append(@, entry)]

\* manifest.lessons.push({index, title, url, htmlPath})
PushLesson(m, entry) == [m EXCEPT !.lessons = Append(@, entry)]

\* manifest.documents.push(...downloadedDocs)
PushDocuments(m, downloadedDocs) == [m EXCEPT !.documents = @ \o downloadedDocs]

\* the video step of a lesson: call the engine, or warn and skip, or nothing
\* (networkVideos is not read after this point and is dropped here)
\* a call that is not awaited: download() goes on to its next statement
DownloadVideoNotAwaited == "html"

\* const videoPath = await this.videoDownloader.downloadVideo(...): download()
\* is suspended until the call settles
AwaitDownloadVideo == "video_wait"

VideoStep ==
  /\ pc = "video"
  /\ vpc = "idle"
  /\ IF ShouldDownload(videoUrl)
     THEN /\ vpc' = "entry"
          /\ vurl' = videoUrl
          /\ vkey' = TitleKey
          /\ fetched' = FALSE
          /\ transcoded' = FALSE
          /\ cur' = [cur EXCEPT !.video = "called", !.dlUrl = videoUrl, !.dom = NoUrl]
          /\ pc' = AwaitDownloadVideo
     ELSE /\ cur' = [cur EXCEPT !.warned = ShouldWarnBlob(videoUrl),
                                !.video = IF ShouldWarnBlob(videoUrl) THEN "blob" ELSE "none",
                                !.dom = NoUrl]
          /\ pc' = "html"
          /\ UNCHANGED <<vpc, vurl, vkey, fetched, transcoded>>
  /\ networkVideos' = <<>>
  /\ UNCHANGED <<requiresAuth, browser, closeCalls, page, courseDir, lessons, i,
                 listeners, videoUrls, events, videoUrl, manifest,
                 manifestWrites, indexWrites, result, threw, cause, disk>>
  /\ UNCHANGED auxVars

\* downloadVideo resolved: record the video
VideoReturn ==
  /\ pc = "video_wait"
  /\ vpc = "ret"
  /\ manifest' = PushVideo(manifest, [lessonIndex |-> LessonIndex, path |-> vkey])
  /\ cur' = [cur EXCEPT !.video = "ok"]
  /\ vpc' = "idle"
  /\ vurl' = NoUrl
  /\ vkey' = 0
  /\ fetched' = FALSE
  /\ transcoded' = FALSE
  /\ pc' = "html"
  /\ UNCHANGED <<requiresAuth, browser, closeCalls, page, courseDir, lessons, i,
                 listeners, videoUrls, events, networkVideos, videoUrl,
                 manifestWrites, indexWrites, result, threw, cause, disk>>
  /\ UNCHANGED auxVars

\* downloadVideo rejected: the exception leaves the video step
VideoThrow ==
  /\ pc = "video_wait"
  /\ vpc = "throw"
  /\ cur' = [cur EXCEPT !.video = "failed"]
  /\ vpc' = "idle"
  /\ vurl' = NoUrl
  /\ vkey' = 0
  /\ fetched' = FALSE
  /\ transcoded' = FALSE
  /\ pc' = Thrown
  /\ cause' = IF Single THEN "video" ELSE cause
  /\ UNCHANGED <<requiresAuth, browser, closeCalls, page, courseDir, lessons, i,
                 listeners, videoUrls, events, networkVideos, videoUrl, manifest,
                 manifestWrites, indexWrites, result, threw, disk>>
  /\ UNCHANGED auxVars

\* ------------------------------------------------------------------ engine
\* a check that finds no file
FileExistsNever(d, key) == FALSE

\* fileManager.fileExists(videoFilePath)
FileExists(d, key) == d[key] # "absent"

\* a choice of path that does not look at the URL
RouteAlwaysDirect(url) == "direct"

\* downloadVideo's choice of path: "hls" (downloadHLS) or "direct"
Route(url) == IF Includes(url, ".m3u8") THEN "hls" ELSE "direct"

\* a resource outside the browser can deliver bytes only for a fetchable URL
Fetchable(url) == ~StartsWithBlob(url)

\* downloadVideo: the file is there, or route the download
DownloadVideo ==
  /\ vpc = "entry"
  /\ vpc' = IF FileExists(disk, vkey) THEN "ret" ELSE Route(vurl)
  /\ UNCHANGED <<vurl, vkey, fetched, transcoded, disk>>
  /\ UNCHANGED orchVars
  /\ UNCHANGED auxVars

\* downloadDirect: the HTTP request; a 2xx response opens the write stream
DownloadDirect ==
  /\ vpc = "direct"
  /\ fetched' = TRUE
  /\ \/ /\ Fetchable(vurl)
        /\ disk' = [disk EXCEPT ![vkey] = "partial"]
        /\ vpc' = "pipe"
     \/ /\ vpc' = "throw"
        /\ UNCHANGED disk
  /\ UNCHANGED <<vurl, vkey, transcoded>>
  /\ UNCHANGED orchVars
  /\ UNCHANGED auxVars

\* what an error of the response stream leads to: the stream has no 'error'
\* listener and pipe() does not end the writer, so either the event is
\* thrown as an uncaught exception and the process dies, or (a stream that
\* closes without the event) neither 'finish' nor 'error' of the writer
\* comes and the promise never settles
ReadErrorOutcomes == {"crashed", "hung"}

\* downloadDirect: the pipe ends with the writer's 'finish' or 'error', or
\* the response stream fails
DownloadPipe ==
  /\ vpc = "pipe"
  /\ \/ /\ disk' = [disk EXCEPT ![vkey] = "complete"]
        /\ vpc' = "ret"
     \/ /\ vpc' = "throw"
        /\ UNCHANGED disk
     \/ /\ vpc' \in ReadErrorOutcomes
        /\ UNCHANGED disk
  /\ UNCHANGED <<vurl, vkey, fetched, transcoded>>
  /\ UNCHANGED orchVars
  /\ UNCHANGED auxVars

\* downloadHLS: the transcoder ends ('end') or fails ('error'), and a failed
\* run may have started its output file
DownloadHLS ==
  /\ vpc = "hls"
  /\ transcoded' = TRUE
  /\ \/ /\ Fetchable(vurl)
        /\ disk' = [disk EXCEPT ![vkey] = "complete"]
        /\ vpc' = "ret"
     \/ /\ vpc' = "throw"
        /\ \E left \in {"absent", "partial"} : disk' = [disk EXCEPT ![vkey] = left]
  /\ UNCHANGED <<vurl, vkey, fetched>>
  /\ UNCHANGED orchVars
  /\ UNCHANGED auxVars

\* ------------------------------------------------------------------ page steps
\* htmlDownloader.savePageHtml: page.content() may fail, which it rethrows
SavePageHtml ==
  /\ pc = "html"
  /\ \/ /\ cur' = [cur EXCEPT !.html = "ok"]
        /\ pc' = "images"
        /\ cause' = cause
     \/ /\ cur' = [cur EXCEPT !.html = "failed"]
        /\ pc' = Thrown
        /\ cause' = IF Single THEN "html" ELSE cause
  /\ UNCHANGED <<requiresAuth, browser, closeCalls, page, courseDir, lessons, i,
                 listeners, videoUrls, events, networkVideos, videoUrl, manifest,
                 manifestWrites, indexWrites, result, threw>>
  /\ UNCHANGED engineVars
  /\ UNCHANGED auxVars

\* htmlDownloader.downloadImages(page, <course>/html): every failure is
\* caught inside
DownloadImages ==
  /\ pc = "images"
  /\ \E srcs \in ImgLists, okAt \in [1..1 -> BOOLEAN] :
       LET r == DownloadImagesFrom(<<<<"html">>>>, HttpImages(srcs), 1, okAt, imgDisk, 0)
       IN /\ imgDisk' = r.disk
          /\ cur' = [cur EXCEPT !.images = TRUE, !.fetch = @ \/ r.fetches > 0]
  /\ pc' = "docs"
  /\ UNCHANGED <<requiresAuth, browser, closeCalls, page, courseDir, lessons, i,
                 listeners, videoUrls, events, networkVideos, videoUrl, manifest,
                 manifestWrites, indexWrites, result, threw, cause>>
  /\ UNCHANGED engineVars
  /\ UNCHANGED <<authed, docs, docDisk, h>>

\* scraper.extractDocuments: a failure inside gives the empty list
ExtractDocuments ==
  /\ pc = "docs"
  /\ \E list \in DocLists :
       /\ docs' = list
       /\ pc' = IF Len(list) > 0 THEN "docs_dl" ELSE "record"
  /\ cur' = [cur EXCEPT !.docs = TRUE]
  /\ UNCHANGED <<requiresAuth, browser, closeCalls, page, courseDir, lessons, i,
                 listeners, videoUrls, events, networkVideos, videoUrl, manifest,
                 manifestWrites, indexWrites, result, threw, cause>>
  /\ UNCHANGED engineVars
  /\ UNCHANGED <<authed, docDisk, imgDisk, h>>

\* downloadDocuments(docs, coursePath), manifest.documents.push(...downloadedDocs);
\* docs is not read again
DownloadDocs ==
  /\ pc = "docs_dl"
  /\ \E okAt \in [1..Len(docs) -> BOOLEAN] :
       LET r == DownloadDocuments(docs, okAt, docDisk)
       IN /\ docDisk' = r.disk
          /\ manifest' = PushDocuments(manifest, r.out)
          /\ cur' = [cur EXCEPT !.fetch = @ \/ r.fetches > 0,
                                !.listed = Len(docs), !.recorded = Len(r.out)]
  /\ docs' = <<>>
  /\ pc' = "record"
  /\ UNCHANGED <<requiresAuth, browser, closeCalls, page, courseDir, lessons, i,
                 listeners, videoUrls, events, networkVideos, videoUrl,
                 manifestWrites, indexWrites, result, threw, cause>>
  /\ UNCHANGED engineVars
  /\ UNCHANGED <<authed, imgDisk, h>>

\* manifest.lessons.push(...), the end of the lesson's try block
RecordLesson ==
  /\ pc = "record"
  /\ manifest' = PushLesson(manifest, [index |-> LessonIndex, htmlPath |-> TitleKey])
  /\ pc' = IF Single THEN "manifest" ELSE "next"
  /\ UNCHANGED <<requiresAuth, browser, closeCalls, page, courseDir, lessons, i,
                 listeners, videoUrls, events, networkVideos, videoUrl,
                 manifestWrites, indexWrites, result, cur, threw, cause>>
  /\ UNCHANGED engineVars
  /\ UNCHANGED auxVars

\* catch (error) of the lesson's try block: log
LessonCatch ==
  /\ pc = "lesson_catch"
  /\ threw' = threw \cup {i}
  /\ pc' = "next"
  /\ UNCHANGED <<requiresAuth, browser, closeCalls, page, courseDir, lessons, i,
                 listeners, videoUrls, events, networkVideos, videoUrl, manifest,
                 manifestWrites, indexWrites, result, cur, cause>>
  /\ UNCHANGED engineVars
  /\ UNCHANGED auxVars

\* i++; the block's videoUrl goes out of scope
NextLesson ==
  /\ pc = "next"
  /\ i' = i + 1
  /\ videoUrl' = NoUrl
  /\ pc' = "loop"
  /\ UNCHANGED <<requiresAuth, browser, closeCalls, page, courseDir, lessons,
                 listeners, videoUrls, events, networkVideos, manifest,
                 manifestWrites, indexWrites, result, cur, threw, cause>>
  /\ UNCHANGED engineVars
  /\ UNCHANGED auxVars

\* ------------------------------------------------------------------ the end
\* fileManager.createManifest
\* a run that goes on to the index page without writing the manifest
CreateManifestSkipped ==
  /\ pc = "manifest"
  /\ pc' = "index"
  /\ UNCHANGED <<requiresAuth, browser, closeCalls, page, courseDir, lessons, i,
                 listeners, videoUrls, events, networkVideos, videoUrl, manifest,
                 manifestWrites, indexWrites, result, cur, threw, cause>>
  /\ UNCHANGED engineVars
  /\ UNCHANGED auxVars

CreateManifest ==
  /\ pc = "manifest"
  /\ manifestWrites' = manifestWrites + 1
  /\ pc' = "index"
  /\ UNCHANGED <<requiresAuth, browser, closeCalls, page, courseDir, lessons, i,
                 listeners, videoUrls, events, networkVideos, videoUrl, manifest,
                 indexWrites, result, cur, threw, cause>>
  /\ UNCHANGED engineVars
  /\ UNCHANGED auxVars

\* htmlDownloader.createIndexPage, then return {success: true, ...}
CreateIndexPage ==
  /\ pc = "index"
  /\ indexWrites' = indexWrites + 1
  /\ result' = "success"
  /\ pc' = "finally"
  /\ UNCHANGED <<requiresAuth, browser, closeCalls, page, courseDir, lessons, i,
                 listeners, videoUrls, events, networkVideos, videoUrl, manifest,
                 manifestWrites, cur, threw, cause>>
  /\ UNCHANGED engineVars
  /\ UNCHANGED auxVars

\* catch (error) of download(): log and rethrow
Catch ==
  /\ pc = "catch"
  /\ result' = "rejected"
  /\ pc' = "finally"
  /\ UNCHANGED <<requiresAuth, browser, closeCalls, page, courseDir, lessons, i,
                 listeners, videoUrls, events, networkVideos, videoUrl, manifest,
                 manifestWrites, indexWrites, cur, threw, cause>>
  /\ UNCHANGED engineVars
  /\ UNCHANGED auxVars

\* variant: close() that leaves the browser alone
CloseNothing(b) == b

\* BaseScraper.close: if (this.browser) await this.browser.close()
Close(b) == IF b = "open" THEN "closed" ELSE b

\* finally { await scraper.close() }
Finally ==
  /\ pc = "finally"
  /\ closeCalls' = closeCalls + 1
  /\ browser' = Close(browser)
  /\ pc' = "done"
  /\ UNCHANGED <<requiresAuth, page, courseDir, lessons, i,
                 listeners, videoUrls, events, networkVideos, videoUrl, manifest,
                 manifestWrites, indexWrites, result, cur, threw, cause>>
  /\ UNCHANGED engineVars
  /\ UNCHANGED auxVars

Next ==
  \/ Initialize \/ NavigateCourse \/ WaitForAuth \/ GetCourseTitle
  \/ CreateCourseStructure \/ ExtractLessons
  \/ LoopTest \/ NavigateLesson
  \/ CaptureBegin \/ NetRequest \/ NetResponse \/ CaptureEnd
  \/ SelectVideo \/ VideoStep \/ VideoReturn \/ VideoThrow
  \/ DownloadVideo \/ DownloadDirect \/ DownloadPipe \/ DownloadHLS
  \/ SavePageHtml \/ DownloadImages \/ ExtractDocuments \/ DownloadDocs
  \/ RecordLesson \/ LessonCatch \/ NextLesson
  \/ CreateManifest \/ CreateIndexPage \/ Catch \/ Finally

Spec == Init /\ [][Next]_vars

\* ------------------------------------------------------------------ engine alone
\* VideoDownloader called by a client of the class, on any disk
InitEngine ==
  /\ pc = "client"
  /\ requiresAuth = FALSE
  /\ browser = "null"
  /\ closeCalls = 0
  /\ page = [kind |-> "blank", idx |-> 0]
  /\ courseDir = FALSE
  /\ lessons = <<>>
  /\ i = 0
  /\ listeners = {}
  /\ videoUrls = <<>>
  /\ events = 0
  /\ networkVideos = <<>>
  /\ videoUrl = NoUrl
  /\ manifest = EmptyManifest
  /\ manifestWrites = 0
  /\ indexWrites = 0
  /\ result = "none"
  /\ cur = FreshCur
  /\ threw = {}
  /\ cause = "none"
  /\ vpc = "idle"
  /\ vurl = NoUrl
  /\ vkey = 0
  /\ fetched = FALSE
  /\ transcoded = FALSE
  /\ disk \in [VideoKeys -> {"absent", "partial", "complete"}]
  /\ authed = FALSE
  /\ docs = <<>>
  /\ docDisk = {}
  /\ imgDisk = {}
  /\ h = [op |-> "none"]

\* a client calls downloadVideo(videoUrl, outputPath, videoTitle)
ClientDownloadVideo ==
  /\ pc = "client"
  /\ vpc = "idle"
  /\ \E url \in EngineUrls, key \in VideoKeys :
       /\ vurl' = url
       /\ vkey' = key
  /\ vpc' = "entry"
  /\ fetched' = FALSE
  /\ transcoded' = FALSE
  /\ UNCHANGED disk
  /\ UNCHANGED orchVars
  /\ UNCHANGED auxVars

\* downloadVideoFromPage: the URL of the page's video element, handed to
\* downloadVideo as it is; no video URL on the page throws
ClientDownloadVideoFromPage ==
  /\ pc = "client"
  /\ vpc = "idle"
  /\ \E src \in EngineUrls \cup {NoUrl}, key \in VideoKeys :
       /\ vurl' = src
       /\ vkey' = key
       /\ vpc' = IF src = NoUrl THEN "throw" ELSE "entry"
  /\ fetched' = FALSE
  /\ transcoded' = FALSE
  /\ UNCHANGED disk
  /\ UNCHANGED orchVars
  /\ UNCHANGED auxVars

\* the client takes the path or the exception
ClientDone ==
  /\ pc = "client"
  /\ vpc \in {"ret", "throw"}
  /\ vpc' = "idle"
  /\ vurl' = NoUrl
  /\ vkey' = 0
  /\ fetched' = FALSE
  /\ transcoded' = FALSE
  /\ UNCHANGED disk
  /\ UNCHANGED orchVars
  /\ UNCHANGED auxVars

NextEngine ==
  \/ ClientDownloadVideo \/ ClientDownloadVideoFromPage \/ ClientDone
  \/ DownloadVideo \/ DownloadDirect \/ DownloadPipe \/ DownloadHLS

SpecEngine == InitEngine /\ [][NextEngine]_vars

\* ------------------------------------------------------------------ helpers
IsPrefix(s, t) == Len(s) <= Len(t) /\ \A k \in 1..Len(s) : s[k] = t[k]

\* the manifest has a videos[] / lessons[] entry of lesson index n
HasVideo(n) == \E k \in 1..Len(manifest.videos) : manifest.videos[k].lessonIndex = n
HasLesson(n) == \E k \in 1..Len(manifest.lessons) : manifest.lessons[k].index = n

\* the URLs of a captured list
CapturedUrls(list) == {list[k].url : k \in 1..Len(list)}

\* ------------------------------------------------------------------ functions alone
\* a function of the code applied once to inputs drawn by the initial state;
\* download() and the engine are at rest
AtRest ==
  /\ pc = "call"
  /\ requiresAuth = FALSE
  /\ browser = "null"
  /\ closeCalls = 0
  /\ page = [kind |-> "blank", idx |-> 0]
  /\ courseDir = FALSE
  /\ lessons = <<>>
  /\ i = 0
  /\ listeners = {}
  /\ videoUrls = <<>>
  /\ events = 0
  /\ networkVideos = <<>>
  /\ videoUrl = NoUrl
  /\ manifest = EmptyManifest
  /\ manifestWrites = 0
  /\ indexWrites = 0
  /\ result = "none"
  /\ cur = FreshCur
  /\ threw = {}
  /\ cause = "none"
  /\ vpc = "idle"
  /\ vurl = NoUrl
  /\ vkey = 0
  /\ fetched = FALSE
  /\ transcoded = FALSE
  /\ disk = [k \in VideoKeys |-> "absent"]
  /\ authed = FALSE
  /\ docs = <<>>

\* the sequences over S of length at most n
SeqsUpTo(S, n) == UNION {[1..k -> S] : k \in 0..n}

\* ------------------------------------------------------------------ extractLessons
MaxLinks == 3

\* link.href and link.textContent.trim() of the matched links
LinkUrls == {"", "A", "B"}
LinkTitles == {"", "L1", "L2"}
Links == [url : LinkUrls, title : LinkTitles]

\* a test that does not look at the URLs seen
KeepLinkUnseen(url, title, seenUrls) == url # "" /\ title # ""

\* if (url && title && !seenUrls.has(url))
KeepLink(url, title, seenUrls) == url # "" /\ title # "" /\ url \notin seenUrls

\* links.forEach of extractLessons' page.evaluate, from the k-th link on
RECURSIVE ForEachLink(_, _, _, _)
ForEachLink(links, k, items, seenUrls) ==
  IF k > Len(links) THEN items
  ELSE LET url == links[k].url
           title == links[k].title
       IN IF KeepLink(url, title, seenUrls)
          THEN ForEachLink(links, k + 1,
                           Append(items, [index |-> Len(items), url |-> url, title |-> title]),
                           seenUrls \cup {url})
          ELSE ForEachLink(links, k + 1, items, seenUrls)

\* the items extractLessons returns for the matched links
LessonElements(links) == ForEachLink(links, 1, <<>>, {})

InitLessons ==
  /\ AtRest
  /\ docDisk = {}
  /\ imgDisk = {}
  /\ h \in {[op |-> "extractLessons", links |-> l, done |-> FALSE, out |-> <<>>] :
               l \in SeqsUpTo(Links, MaxLinks)}

\* BaseScraper.extractLessons on the matched links
ExtractLessonsOf ==
  /\ h.op = "extractLessons"
  /\ ~h.done
  /\ h' = [h EXCEPT !.done = TRUE, !.out = LessonElements(h.links)]
  /\ UNCHANGED orchVars
  /\ UNCHANGED engineVars
  /\ UNCHANGED <<authed, docs, docDisk, imgDisk>>

NextLessons == ExtractLessonsOf

SpecLessons == InitLessons /\ [][NextLessons]_vars

\* ------------------------------------------------------------------ file names
MaxTail == 2

\* the characters of a name: those of the replaced class, a letter, a dot, a space
Chars == ReplacedChars \cup {"a", ".", " "}

\* names of n letters followed by at most MaxTail characters, with n at and
\* around the length sanitizeFilename cuts to
PadLengths == {0, MaxNameLength - 2, MaxNameLength - 1, MaxNameLength}
Names == {[k \in 1..n |-> "a"] \o t : n \in PadLengths, t \in SeqsUpTo(Chars, MaxTail)}

\* videoPath of downloadVideo(videoUrl, outputPath, videoTitle)
VideoPath(outputPath, videoTitle) ==
  PathJoin(outputPath, sanitizeFilename(videoTitle) \o <<".mp4">>)

\* htmlFilePath of savePageHtml(page, outputPath, pageTitle)
HtmlFilePath(outputPath, pageTitle) ==
  PathJoin(outputPath, sanitizeFilename(pageTitle) \o <<".html">>)

\* coursePath of createCourseStructure(courseName, websiteName), under basePath
CoursePath(courseName, websiteName) ==
  <<sanitizeFilename(websiteName), sanitizeFilename(courseName)>>

InitNames ==
  /\ AtRest
  /\ docDisk = {}
  /\ imgDisk = {}
  /\ h \in {[op |-> o, name |-> n, done |-> FALSE, out |-> <<>>] :
               o \in {"video", "html", "document", "course"}, n \in Names}

\* downloadVideo names its file
NameVideo ==
  /\ h.op = "video"
  /\ ~h.done
  /\ h' = [h EXCEPT !.done = TRUE, !.out = VideoPath(<<<<"videos">>>>, h.name)]
  /\ UNCHANGED orchVars
  /\ UNCHANGED engineVars
  /\ UNCHANGED <<authed, docs, docDisk, imgDisk>>

\* savePageHtml names its file
NameHtml ==
  /\ h.op = "html"
  /\ ~h.done
  /\ h' = [h EXCEPT !.done = TRUE, !.out = HtmlFilePath(<<<<"html">>>>, h.name)]
  /\ UNCHANGED orchVars
  /\ UNCHANGED engineVars
  /\ UNCHANGED <<authed, docs, docDisk, imgDisk>>

\* downloadDocument names its file, from the filename given or else from the URL
NameDocument ==
  /\ h.op = "document"
  /\ ~h.done
  /\ h' = [h EXCEPT !.done = TRUE, !.out = DocFilePath(<<<<"documents">>>>, DocUrlA, h.name)]
  /\ UNCHANGED orchVars
  /\ UNCHANGED engineVars
  /\ UNCHANGED <<authed, docs, docDisk, imgDisk>>

\* createCourseStructure names the course directory
NameCourse ==
  /\ h.op = "course"
  /\ ~h.done
  /\ h' = [h EXCEPT !.done = TRUE, !.out = CoursePath(h.name, <<"site">>)]
  /\ UNCHANGED orchVars
  /\ UNCHANGED engineVars
  /\ UNCHANGED <<authed, docs, docDisk, imgDisk>>

NextNames == NameVideo \/ NameHtml \/ NameDocument \/ NameCourse

SpecNames == InitNames /\ [][NextNames]_vars

\* ------------------------------------------------------------------ a lesson's page
MaxImgs == 2

\* lesson.title
Titles == {<<"Intro">>, <<"a", "/", "b">>}

\* the src attribute of the page's video element: none, or a URL
VideoSrcQuery == <<"https:", "/", "cdn", "/", "a.mp4", "?", "x=1">>
VideoSrcNamed == <<"https:", "/", "cdn", "/", "1", "_", "Intro", ".mp4">>
VideoSrcs == {NoUrl, UrlMp4, VideoSrcQuery, VideoSrcNamed}

\* the src attribute of an img element: none, absolute, or relative to the page
ImgRel == <<"img", "/", "rel.png">>
ImgSrcs == {NoUrl, ImgUrl, ImgUrlNoName, ImgRel}
PageBase == <<"https:", "/", "site", "/">>

\* img.src, the property: the attribute resolved against the page URL
ImgProperty(attr) ==
  IF attr = NoUrl \/ StartsWithHttp(attr) THEN attr ELSE PageBase \o attr

\* `${i + 1}_${lesson.title}`
LessonFileTitle(n, title) == <<ToString(n + 1), "_">> \o title

\* processHtml on a video element: $(elem).attr('src', `../videos/${filename}`)
ProcessVideo(src) ==
  IF src # NoUrl THEN <<"..", "/", "videos", "/">> \o Basename(src) ELSE src

\* processHtml on the k-th img element, k counted from 0
ProcessImg(src, k) ==
  IF src # NoUrl /\ StartsWithHttp(src)
  THEN <<"..", "/", "images", "/">> \o ImageName(src, k)
  ELSE src

\* path.dirname
Dirname(path) == SubSeq(path, 1, Len(path) - 1)

InitPage ==
  /\ AtRest
  /\ docDisk = {}
  /\ imgDisk = {}
  /\ h \in {[op |-> "page", n |-> n, title |-> t, src |-> v, imgs |-> a, done |-> FALSE,
              video |-> <<>>, html |-> <<>>, videoRef |-> <<>>, imgRefs |-> <<>>] :
               n \in 0..(MaxLessons - 1), t \in Titles, v \in VideoSrcs,
               a \in SeqsUpTo(ImgSrcs, MaxImgs)}

\* the steps of download() for lesson n that name and write files: the video
\* of the page's video element is downloaded, the page is saved with its
\* references rewritten, its images are fetched; every request succeeds
SaveLessonPage ==
  /\ h.op = "page"
  /\ ~h.done
  /\ LET fileTitle == LessonFileTitle(h.n, h.title)
         images == HttpImages([k \in 1..Len(h.imgs) |-> ImgProperty(h.imgs[k])])
         r == DownloadImagesFrom(<<<<"html">>>>, images, 1, [k \in 1..Len(images) |-> TRUE],
                                 imgDisk, 0)
     IN /\ h' = [h EXCEPT !.done = TRUE,
                          !.video = IF h.src # NoUrl
                                    THEN VideoPath(<<<<"videos">>>>, fileTitle) ELSE <<>>,
                          !.html = HtmlFilePath(<<<<"html">>>>, fileTitle),
                          !.videoRef = ProcessVideo(h.src),
                          !.imgRefs = [k \in 1..Len(h.imgs) |-> ProcessImg(h.imgs[k], k - 1)]]
        /\ imgDisk' = r.disk
  /\ UNCHANGED orchVars
  /\ UNCHANGED engineVars
  /\ UNCHANGED <<authed, docs, docDisk>>

NextPage == SaveLessonPage

SpecPage == InitPage /\ [][NextPage]_vars

\* ------------------------------------------------------------------ documents of a course
MaxDocs == 2

\* the document links the pages of a course may carry, over its lessons
DocUrls == {DocUrlA, DocUrlA2, DocUrlB}

InitDocs ==
  /\ AtRest
  /\ imgDisk = {}
  /\ docDisk \in {{}, AllDocFiles}
  /\ h \in {[op |-> "documents", list |-> [k \in 1..Len(l) |-> DocLink(l[k])],
              okAt |-> ok, done |-> FALSE, out |-> <<>>, before |-> {}] :
               l \in SeqsUpTo(DocUrls, MaxDocs), ok \in [1..MaxDocs -> BOOLEAN]}

\* downloadDocuments on the links of the run, manifest.documents.push
DownloadDocumentsOf ==
  /\ h.op = "documents"
  /\ ~h.done
  /\ LET r == DownloadDocuments(h.list, h.okAt, docDisk)
     IN /\ docDisk' = r.disk
        /\ h' = [h EXCEPT !.done = TRUE, !.out = r.out, !.before = docDisk]
  /\ UNCHANGED orchVars
  /\ UNCHANGED engineVars
  /\ UNCHANGED <<authed, docs, imgDisk>>

NextDocs == DownloadDocumentsOf

SpecDocs == InitDocs /\ [][NextDocs]_vars

\* ------------------------------------------------------------------ classification
\* the markers the listeners look for in a URL
UrlMarkers == <<".m3u8", ".mpd", "/manifest/", "video", ".mp4", ".ts">>

\* the URLs made of a host and any choice of markers
MarkerUrls ==
  {<<"https:", "/", "cdn", "/">> \o SelectSeq(UrlMarkers, LAMBDA t : t \in pick) :
     pick \in SUBSET Range(UrlMarkers)}

\* response.headers()['content-type'] || ''
AllContentTypes == {"", "text/html", "video/mp4", "application/vnd.apple.mpegurl",
                    "application/x-mpegURL", "application/dash+xml"}

InitClassify ==
  /\ AtRest
  /\ docDisk = {}
  /\ imgDisk = {}
  /\ h \in {[op |-> "classify", kind |-> "request", url |-> u, ct |-> "",
              done |-> FALSE, out |-> <<>>] : u \in MarkerUrls}
          \cup {[op |-> "classify", kind |-> "response", url |-> u, ct |-> c,
                 done |-> FALSE, out |-> <<>>] : u \in MarkerUrls, c \in AllContentTypes}

\* requestListener on the first event of a URL
ObserveRequest ==
  /\ h.op = "classify"
  /\ h.kind = "request"
  /\ ~h.done
  /\ h' = [h EXCEPT !.done = TRUE, !.out = OnRequest(<<>>, h.url)]
  /\ UNCHANGED orchVars
  /\ UNCHANGED engineVars
  /\ UNCHANGED <<authed, docs, docDisk, imgDisk>>

\* responseListener on the first event of a URL
ObserveResponse ==
  /\ h.op = "classify"
  /\ h.kind = "response"
  /\ ~h.done
  /\ h' = [h EXCEPT !.done = TRUE, !.out = OnResponse(<<>>, h.url, h.ct)]
  /\ UNCHANGED orchVars
  /\ UNCHANGED engineVars
  /\ UNCHANGED <<authed, docs, docDisk, imgDisk>>

NextClassify == ObserveRequest \/ ObserveResponse

SpecClassify == InitClassify /\ [][NextClassify]_vars

\* ------------------------------------------------------------------ capture alone
\* captureVideoUrlsFromNetwork step by step on a loaded page, the time in
\* sleeps of checkInterval; the window is timeout / checkInterval sleeps
MaxPolls == 3

\* while (Date.now() - startTime < timeout && videoUrls.length === 0)
PollAgain(elapsed, list) == elapsed < MaxPolls /\ Len(list) = 0

InitCapture ==
  /\ AtRest
  /\ docDisk = {}
  /\ imgDisk = {}
  /\ h = [op |-> "capture", at |-> "start", elapsed |-> 0, played |-> "none", out |-> <<>>]

\* videoUrls = [], page.on('request', ...), page.on('response', ...)
CaptureInstall ==
  /\ h.op = "capture"
  /\ h.at = "start"
  /\ videoUrls' = <<>>
  /\ events' = 0
  /\ listeners' = {"request", "response"}
  /\ h' = [h EXCEPT !.at = "play"]
  /\ UNCHANGED <<pc, requiresAuth, browser, closeCalls, page, courseDir, lessons, i,
                 networkVideos, videoUrl, manifest,
                 manifestWrites, indexWrites, result, cur, threw, cause>>
  /\ UNCHANGED engineVars
  /\ UNCHANGED <<authed, docs, docDisk, imgDisk>>

\* page.evaluate(video.play()) in its try: a failure is logged as a warning
CapturePlay ==
  /\ h.op = "capture"
  /\ h.at = "play"
  /\ \E played \in {"ok", "failed"} : h' = [h EXCEPT !.at = "poll", !.played = played]
  /\ UNCHANGED orchVars
  /\ UNCHANGED engineVars
  /\ UNCHANGED <<authed, docs, docDisk, imgDisk>>

\* the loop test, and one sleep of checkInterval when it holds
CapturePoll ==
  /\ h.op = "capture"
  /\ h.at = "poll"
  /\ h' = IF PollAgain(h.elapsed, videoUrls)
          THEN [h EXCEPT !.elapsed = @ + 1]
          ELSE [h EXCEPT !.at = "off"]
  /\ UNCHANGED orchVars
  /\ UNCHANGED engineVars
  /\ UNCHANGED <<authed, docs, docDisk, imgDisk>>

\* page.off twice, the log line, return videoUrls
CaptureOff ==
  /\ h.op = "capture"
  /\ h.at = "off"
  /\ listeners' = RemoveListeners(listeners)
  /\ h' = [h EXCEPT !.at = "returned", !.out = videoUrls]
  /\ UNCHANGED <<pc, requiresAuth, browser, closeCalls, page, courseDir, lessons, i,
                 videoUrls, events, networkVideos, videoUrl, manifest,
                 manifestWrites, indexWrites, result, cur, threw, cause>>
  /\ UNCHANGED engineVars
  /\ UNCHANGED <<authed, docs, docDisk, imgDisk>>

\* the steps of the function itself; the page's events are NetRequest and NetResponse
CaptureSteps == CaptureInstall \/ CapturePlay \/ CapturePoll \/ CaptureOff

NextCapture == CaptureSteps \/ NetRequest \/ NetResponse

\* an awaited evaluate settles and a timer fires: the function's own steps
\* are taken when they can be; the page owes no event
SpecCapture == InitCapture /\ [][NextCapture]_vars /\ WF_vars(CaptureSteps)

\* ------------------------------------------------------------------ claims

\* C1: when the video download of a lesson fails, only the video is left
\* out of manifest.videos and the lesson goes on: its HTML save is
\* attempted, and when that succeeds the images and documents are
\* downloaded and the lessons[] entry is recorded.
C1_VideoFailureLessonContinues ==
  (pc = "next" /\ cur.video = "failed") =>
     /\ ~HasVideo(i)
     /\ cur.html # "none"
     /\ cur.html = "ok" => (cur.images /\ cur.docs /\ HasLesson(i))

\* C2: lesson-level isolation: a throw of lesson k lands in the lesson's
\* catch, never in download()'s; a run with a lesson list ends with every
\* lesson either recorded or failed, the manifest written, and success.
C2_LessonIsolation ==
  /\ ~Single => (pc # "catch" /\ result # "rejected")
  /\ (pc = "done" /\ ~Single) =>
        /\ result = "success"
        /\ manifestWrites = 1
        /\ \A k \in 0..(Len(lessons) - 1) : (k \in threw) # HasLesson(k)

C2_Witness ==
  /\ pc = "done"
  /\ Len(lessons) >= 2
  /\ 0 \in threw
  /\ HasLesson(1)
  /\ result = "success"

\* C3: with no lesson list the course page is one implicit lesson with the
\* failure semantics of a listed lesson: whatever fails in its steps, the
\* manifest is written and download() reports success.
C3_SinglePageIsolation ==
  (pc = "done" /\ courseDir /\ Single) => (result = "success" /\ manifestWrites = 1)

\* C4: the in-memory manifest only grows by appending: no step, failing or
\* not, removes or changes a lessons, videos or documents entry.
C4_ManifestAppendOnly ==
  [][/\ IsPrefix(manifest.lessons, manifest'.lessons)
     /\ IsPrefix(manifest.videos, manifest'.videos)
     /\ IsPrefix(manifest.documents, manifest'.documents)]_vars

C4_Witness ==
  /\ pc = "lesson_catch"
  /\ i >= 1
  /\ HasLesson(0)
  /\ HasVideo(0)
  /\ Len(manifest.documents) > 0

\* C5: when the capture holds a non-blob URL and the DOM holds a non-blob
\* video URL, the URL handed to the video download is a captured non-blob
\* URL, whatever the content and order of the captured list.
C5_NetworkPreferred ==
  (/\ pc = "video"
   /\ \E u \in CapturedUrls(networkVideos) : ~StartsWithBlob(u)
   /\ cur.dom # NoUrl
   /\ ~StartsWithBlob(cur.dom))
  => (/\ ShouldDownload(videoUrl)
      /\ videoUrl \in CapturedUrls(networkVideos))

\* C6: download() never calls the video download with a blob: URL; a
\* blob result, from the capture or from the DOM, gives a warning and no
\* manifest.videos entry for the lesson.
C6_NoBlobDownload ==
  /\ vpc # "idle" => ~StartsWithBlob(vurl)
  /\ ~StartsWithBlob(cur.dlUrl)
  /\ (pc \notin {"select", "video"} /\ StartsWithBlob(videoUrl)) =>
        /\ cur.warned
        /\ cur.dlUrl = NoUrl
        /\ ~HasVideo(LessonIndex)

C6_Witness ==
  /\ pc = "record"
  /\ StartsWithBlob(videoUrl)
  /\ cur.src = "network"
  /\ cur.warned
  /\ ~HasVideo(LessonIndex)

\* C7: a call of the engine with a blob: URL ends in an "unsupported"
\* outcome, with no HTTP request and no transcoder run.
C7_EngineRejectsBlob ==
  (vpc \in {"ret", "throw", "unsupported"} /\ StartsWithBlob(vurl)) =>
     (vpc = "unsupported" /\ ~fetched /\ ~transcoded)

\* C8: in a run that reaches the lesson phase, manifest.json is written
\* exactly once, and not before every lesson has been attempted.
C8_ManifestWrittenOnce ==
  /\ manifestWrites <= 1
  /\ manifestWrites = 1 => (pc \in {"index", "finally", "done"} /\ (~Single => i = Len(lessons)))
  /\ (pc = "done" /\ courseDir) => manifestWrites = 1

\* C9: when download() has ended, on any path, scraper.close() has been
\* called and no launched browser is open.
C9_BrowserReleased ==
  pc = "done" => (closeCalls = 1 /\ browser # "open" /\ result \in {"success", "rejected"})

C9_Witness ==
  /\ pc = "done"
  /\ cause = "init"
  /\ result = "rejected"
  /\ browser = "closed"

\* C10: after a failed browser initialization or a failed navigation to the
\* course URL the run is aborted: download() rejects, no course directory
\* is made, no lesson step runs, no manifest and no index page is written.
C10_AbortedOnInitOrNavFailure ==
  cause \in {"init", "nav"} =>
     /\ pc \in {"catch", "finally", "done"}
     /\ pc # "catch" => result = "rejected"
     /\ ~courseDir
     /\ lessons = <<>>
     /\ manifest = EmptyManifest
     /\ cur = FreshCur
     /\ vpc = "idle"
     /\ listeners = {}
     /\ manifestWrites = 0
     /\ indexWrites = 0

C10_Witness ==
  /\ pc = "done"
  /\ cause = "nav"
  /\ result = "rejected"

\* every video, document and image file of the course is on disk
AllOnDisk ==
  /\ \A k \in VideoKeys : disk[k] = "complete"
  /\ AllDocFiles \subseteq docDisk
  /\ AllImageFiles \subseteq imgDisk

\* C11: a run over a course whose video, document and image files are all
\* on disk makes no HTTP request for an asset and no transcoder run, and
\* still records every video it selects and every document it lists, as
\* the run that fetched them did.
C11_RerunFetchesNothing ==
  AllOnDisk =>
     /\ vpc \notin {"direct", "pipe", "hls", "throw"}
     /\ ~fetched
     /\ ~transcoded
     /\ ~cur.fetch
     /\ cur.video # "failed"
     /\ cur.recorded = cur.listed
     /\ (cur.dlUrl # NoUrl /\ pc \notin {"video_wait", "loop"}) => HasVideo(LessonIndex)

C11_Witness ==
  /\ pc = "done"
  /\ AllOnDisk
  /\ result = "success"
  /\ Len(manifest.lessons) >= 2
  /\ Len(manifest.videos) >= 2
  /\ Len(manifest.documents) >= 1

\* a link that is not dropped: its URL and its title are not empty
ValidLink(l) == l.url # "" /\ l.title # ""

\* position of the first link with URL u that is not dropped
FirstValid(links, u) ==
  CHOOSE p \in 1..Len(links) :
    /\ links[p].url = u /\ ValidLink(links[p])
    /\ \A q \in 1..(p - 1) : ~(links[q].url = u /\ ValidLink(links[q]))

\* C12: extractLessons returns one entry for each URL that occurs in a link
\* with a URL and a title, and no other entry; the entries are in the order
\* in which those URLs first occur, carry the title of that first
\* occurrence, and have the index values 0..n-1 in that order.
C12_LessonsUniqueInOrder ==
  (h.op = "extractLessons" /\ h.done) =>
     LET links == h.links
         out == h.out
     IN /\ \A k \in 1..Len(out) : out[k].index = k - 1
        /\ \A j, k \in 1..Len(out) : out[j].url = out[k].url => j = k
        /\ {out[k].url : k \in 1..Len(out)} =
              {links[p].url : p \in {q \in 1..Len(links) : ValidLink(links[q])}}
        /\ \A k \in 1..Len(out) :
              out[k].title = links[FirstValid(links, out[k].url)].title
        /\ \A j, k \in 1..Len(out) :
              j < k => FirstValid(links, out[j].url) < FirstValid(links, out[k].url)

C12_Witness ==
  /\ h.op = "extractLessons"
  /\ h.done
  /\ h.links = <<[url |-> "A", title |-> "L1"], [url |-> "A", title |-> "L1"],
                 [url |-> "B", title |-> "L2"]>>
  /\ h.out = <<[index |-> 0, url |-> "A", title |-> "L1"],
               [index |-> 1, url |-> "B", title |-> "L2"]>>

\* C13: a call of downloadVideo with a URL that contains .m3u8 and a
\* destination file that is absent goes to downloadHLS: the byte-stream
\* path (downloadDirect and its pipe) is never entered with such a URL and
\* no HTTP request is made for it, and the transcoder is what ends the call.
C13_HlsNeverDirect ==
  /\ [](Includes(vurl, ".m3u8") =>
          /\ vpc \notin {"direct", "pipe"}
          /\ ~fetched
          /\ (vpc = "ret" /\ ~transcoded) => FileExists(disk, vkey))
  /\ [][(vpc = "entry" /\ Includes(vurl, ".m3u8") /\ ~FileExists(disk, vkey)) =>
           vpc' = "hls"]_vars
  /\ [][(vpc = "hls" /\ vpc' # "hls") => transcoded']_vars

C13_Witness ==
  /\ vpc = "ret"
  /\ vurl = UrlHls
  /\ transcoded
  /\ ~fetched
  /\ disk[vkey] = "complete"

\* C17: a lesson whose capture returned no URL and whose page has no video
\* element makes no call of the video download and gets no manifest.videos
\* entry; its HTML step is attempted, and when that succeeds the lesson is
\* recorded in manifest.lessons and the loop goes on to the next lesson;
\* nothing of it reaches download()'s catch.
C17_NoVideoLessonRecorded ==
  /\ (pc \in {"html", "images", "docs", "docs_dl", "record", "lesson_catch", "next"}
       /\ ~Single /\ cur.src = "none") =>
        /\ videoUrl = NoUrl
        /\ cur.dlUrl = NoUrl
        /\ cur.video = "none"
        /\ ~cur.warned
        /\ ~HasVideo(i)
        /\ vpc = "idle"
  /\ (pc = "next" /\ cur.src = "none") =>
        /\ cur.html # "none"
        /\ cur.html = "ok" <=> HasLesson(i)
        /\ cur.html = "ok" <=> i \notin threw
        /\ result = "none"

C17_Witness ==
  /\ pc = "next"
  /\ i = 0
  /\ Len(lessons) >= 2
  /\ cur.src = "none"
  /\ cur.html = "ok"
  /\ HasLesson(0)
  /\ ~HasVideo(0)

\* C18: with requiresAuth true, the title, the course structure and the
\* lesson list are only taken after waitForAuth has received a line; the
\* wait is left by nothing but that line, and whatever the line says the
\* run goes on to the title; with requiresAuth false download() never
\* waits for input.
C18_AuthGate ==
  /\ []((requiresAuth /\ (pc \in {"title", "structure", "extract"} \/ courseDir \/ lessons # <<>>))
          => authed)
  /\ [](~requiresAuth => (pc # "auth" /\ ~authed))
  /\ [](pc = "auth" => (~authed /\ ~courseDir /\ lessons = <<>> /\ manifest = EmptyManifest))
  /\ [][pc = "auth" => (authed' /\ pc' = "title")]_vars

C18_Witness ==
  /\ requiresAuth
  /\ authed
  /\ pc = "extract"
  /\ courseDir

\* no two entries of a capture list carry the same URL
UniqueUrls(list) == \A j, k \in 1..Len(list) : list[j].url = list[k].url => j = k

\* C20: the list captureVideoUrlsFromNetwork builds and returns never holds
\* two entries with the same URL, whatever request and response events
\* the page emits while the listeners are attached.
C20_CaptureListUnique ==
  /\ UniqueUrls(videoUrls)
  /\ UniqueUrls(networkVideos)

\* none of the characters < > : " / \ | ? * in a name
Clean(name) == \A k \in 1..Len(name) : name[k] \notin ReplacedChars

\* the extension a step appends to the sanitized name
Extension(op) ==
  CASE op = "video" -> <<".mp4">>
    [] op = "html" -> <<".html">>
    [] OTHER -> <<>>

\* C19: for every input, sanitizeFilename's result has none of the
\* characters < > : " / \ | ? * and at most 200 characters; the last
\* component of the path of a video, an HTML page, a document and a
\* course directory is such a result (with the step's extension).
C19_SanitizedNames ==
  h.op \in {"video", "html", "document", "course"} =>
     /\ Clean(sanitizeFilename(h.name))
     /\ Len(sanitizeFilename(h.name)) <= MaxNameLength
     /\ h.done =>
          /\ \A c \in 1..Len(h.out) : Clean(h.out[c])
          /\ Len(Pop(h.out)) <= MaxNameLength + Len(Extension(h.op))
          /\ h.name # <<>> => Pop(h.out) = sanitizeFilename(h.name) \o Extension(h.op)

C19_Witness ==
  /\ h.op = "video"
  /\ h.done
  /\ Len(h.name) = MaxNameLength + 1
  /\ h.name[MaxNameLength] = "/"
  /\ h.name[MaxNameLength + 1] = "?"
  /\ Len(Pop(h.out)) = MaxNameLength + 1
  /\ Pop(h.out)[MaxNameLength] = "-"

\* C14: the video reference of a lesson's saved HTML, resolved from the
\* saved file, is the path of the video file written for the lesson, the
\* one manifest.videos records.
C14_VideoRefIsLocalFile ==
  (h.op = "page" /\ h.done /\ h.src # NoUrl) =>
     Resolve(Dirname(h.html), h.videoRef) = h.video

\* C15: for every img whose src starts with http, the reference the saved
\* HTML carries (../images/<name>), resolved from the saved file, is a
\* path at which downloadImages has stored a file.
C15_ImageRefIsStoredFile ==
  (h.op = "page" /\ h.done) =>
     \A k \in 1..Len(h.imgs) :
        StartsWithHttp(h.imgs[k]) => Resolve(Dirname(h.html), h.imgRefs[k]) \in imgDisk

\* C16: documents with different source URLs are never given the same
\* local file: no two recorded entries with different originalUrl share a
\* path, and the file of every recorded entry holds the bytes fetched from
\* that entry's originalUrl.
C16_DocumentNamesCollisionSafe ==
  (h.op = "documents" /\ h.done) =>
     /\ \A j, k \in 1..Len(h.out) :
          h.out[j].originalUrl # h.out[k].originalUrl => h.out[j].path # h.out[k].path
     /\ \A k \in 1..Len(h.out) :
          [path |-> h.out[k].path, origin |-> h.out[k].originalUrl] \in docDisk

\* the type the priority order gives: the playlist marker in the URL or
\* the content type, else a manifest marker in either, else direct
PriorityType(url, ct) ==
  IF Includes(url, ".m3u8") \/ CtIncludes(ct, "mpegurl") \/ CtIncludes(ct, "x-mpegURL")
  THEN "hls"
  ELSE IF Includes(url, ".mpd") \/ Includes(url, "/manifest/") \/ CtIncludes(ct, "dash")
  THEN "dash"
  ELSE "direct"

\* C21: whichever event of a URL is seen first, the entry it adds has the
\* type of the priority order: hls for the playlist marker in the URL or
\* the content type, else dash for .mpd, /manifest/ or a dash content type,
\* else direct.
C21_ClassifiedByPriority ==
  (h.op = "classify" /\ h.done /\ Len(h.out) > 0) =>
     h.out[1].type = PriorityType(h.url, h.ct)

\* C22: captureVideoUrlsFromNetwork returns, after a hit or after the
\* window has passed, whether or not the playback trigger failed; when it
\* has returned neither listener is attached, and listeners are attached
\* only between its installing them and its removing them.
C22_CaptureEndsListenersRemoved ==
  /\ <>(h.at = "returned")
  /\ [](h.at = "returned" => listeners = {})
  /\ [](listeners # {} => h.at \in {"play", "poll", "off"})
  /\ [](h.at = "off" => (Len(videoUrls) > 0 \/ h.elapsed = MaxPolls))

C22_Witness ==
  /\ h.at = "returned"
  /\ h.played = "failed"
  /\ h.elapsed = MaxPolls
  /\ h.out = <<>>
  /\ listeners = {}

\* C23: a direct download that meets a non-2xx response or a stream error
\* ends as a rejected call: it does not hang and does not take the
\* process down.
C23_DirectFailureRejects ==
  vpc \notin {"hung", "crashed"}

\* the positions of download() inside the body of lesson i
InLesson == {"lesson_nav", "capture", "cap_wait", "select", "video", "video_wait",
             "html", "images", "docs", "docs_dl", "record", "lesson_catch"}

\* lesson k has been recorded or has failed
LessonOver(k) == HasLesson(k) \/ k \in threw

\* C24: the run is sequential: a video download is in flight only while
\* download() is suspended on it, so no other step and no other download
\* runs beside it; while lesson i is being processed every earlier lesson
\* is recorded or failed and no later lesson has left a trace; and i only
\* moves from a lesson that is recorded or failed to the next one.
C24_StrictlySequential ==
  /\ [](vpc # "idle" => pc = "video_wait")
  /\ []((~Single /\ pc \in InLesson) =>
          /\ \A k \in 0..(i - 1) : LessonOver(k)
          /\ \A k \in (i + 1)..(Len(lessons) - 1) : ~LessonOver(k) /\ ~HasVideo(k)
          /\ pc # "lesson_catch" => ~LessonOver(i))
  /\ [][i' # i => (i' = i + 1 /\ LessonOver(i) /\ vpc = "idle" /\ listeners = {})]_vars

C24_Witness ==
  /\ pc = "video_wait"
  /\ vpc = "pipe"
  /\ i = 1
  /\ HasLesson(0)
  /\ HasVideo(0)

\* the order of the orchestrator's steps: the pairs of a position of
\* download() and a position that may follow it
StepOrder ==
  {<<"init", "nav">>, <<"nav", "auth">>, <<"nav", "title">>, <<"auth", "title">>,
   <<"title", "structure">>, <<"structure", "extract">>,
   <<"extract", "loop">>, <<"extract", "capture">>,
   <<"loop", "lesson_nav">>, <<"lesson_nav", "capture">>,
   <<"capture", "cap_wait">>, <<"cap_wait", "select">>, <<"select", "video">>,
   <<"video", "video_wait">>, <<"video", "html">>, <<"video_wait", "html">>,
   <<"html", "images">>, <<"images", "docs">>, <<"docs", "docs_dl">>,
   <<"docs", "record">>, <<"docs_dl", "record">>,
   <<"record", "next">>, <<"next", "loop">>,
   <<"loop", "manifest">>, <<"record", "manifest">>,
   <<"manifest", "index">>, <<"index", "finally">>, <<"finally", "done">>,
   <<"video_wait", "lesson_catch">>, <<"html", "lesson_catch">>, <<"lesson_catch", "next">>,
   <<"init", "catch">>, <<"nav", "catch">>, <<"video_wait", "catch">>, <<"html", "catch">>,
   <<"catch", "finally">>}

\* C25: download() moves through its steps in the order of the state
\* machine; no file of the course is written before the course structure
\* is created; within a lesson the HTML is saved before the images are
\* fetched and those before the documents, and the lesson is recorded
\* last; the manifest is written only when every lesson is over, and the
\* index page only after the manifest.
C25_StepOrder ==
  /\ [][pc' # pc => <<pc, pc'>> \in StepOrder]_vars
  /\ [][(disk' # disk \/ imgDisk' # imgDisk \/ docDisk' # docDisk) => courseDir]_vars
  /\ []((cur.html # "none" \/ manifestWrites > 0 \/ indexWrites > 0) => courseDir)
  /\ [](cur.images => cur.html = "ok")
  /\ [](cur.docs => cur.images)
  /\ [](pc = "record" => cur.docs)
  /\ []((manifestWrites > 0 /\ ~Single) =>
          (i = Len(lessons) /\ \A k \in 0..(Len(lessons) - 1) : LessonOver(k)))
  /\ [](indexWrites > 0 => manifestWrites = 1)

C25_Witness ==
  /\ pc = "done"
  /\ Len(lessons) >= 2
  /\ HasLesson(0)
  /\ HasLesson(1)
  /\ manifestWrites = 1
  /\ indexWrites = 1

\* C26: in the manifest that is written every videos[] entry has the
\* lessonIndex of an entry of lessons[] of the same manifest, whatever
\* step of the lesson failed.
C26_VideoHasLesson ==
  manifestWrites > 0 =>
     \A k \in 1..Len(manifest.videos) : HasLesson(manifest.videos[k].lessonIndex)

\* C27: the capture, the video step, the HTML save, the image and document
\* steps and the record of lesson i run on the page of lesson i: after a
\* failed navigateTo(lesson.url) none of them runs on the page that was
\* loaded before.
C27_LessonStepsOnOwnPage ==
  (~Single /\ pc \in (InLesson \ {"lesson_nav", "lesson_catch"})) =>
     page = [kind |-> "lesson", idx |-> i]

\* C28: a selected candidate that the capture typed hls, by its URL or by
\* its content type, is never given to the byte-stream path: its download
\* makes no HTTP request of downloadDirect.
C28_HlsCandidateRemuxed ==
  (pc = "video_wait" /\ cur.type = "hls") =>
     (vpc \notin {"direct", "pipe"} /\ ~fetched)

\* C29: a file that is not a completed download is at a video's
\* destination only while downloadDirect is writing it: a failed direct
\* download and a failed remux leave no file behind for fileExists to find.
C29_NoIncompleteVideoFile ==
  \A k \in VideoKeys : disk[k] = "partial" => (vpc = "pipe" /\ vkey = k)

\* the k-th document of the list has its file when its turn is over: the
\* file was there before the call, or the request of this document or of
\* an earlier one with the same file succeeded
DocKept(list, okAt, before, k) ==
  LET path(j) == DocFilePath(<<<<"documents">>>>, list[j].href, list[j].filename)
  IN \/ FileOnDisk(before, path(k))
     \/ \E j \in 1..k : path(j) = path(k) /\ okAt[j]

\* C30: downloadDocuments returns, in the order of its list, one record
\* {filename, path, originalUrl, size} for each document that was fetched
\* or was there already, and none for a document whose request failed;
\* the documents after a failed one are still processed.
C30_DocumentRecords ==
  (h.op = "documents" /\ h.done) =>
     LET kept == SelectSeq([k \in 1..Len(h.list) |-> k],
                           LAMBDA k : DocKept(h.list, h.okAt, h.before, k))
     IN /\ Len(h.out) = Len(kept)
        /\ \A n \in 1..Len(kept) :
              /\ DOMAIN h.out[n] = {"filename", "path", "originalUrl", "size"}
              /\ h.out[n].filename = h.list[kept[n]].filename
              /\ h.out[n].originalUrl = h.list[kept[n]].href
              /\ h.out[n].path = DocFilePath(<<<<"documents">>>>, h.list[kept[n]].href,
                                             h.list[kept[n]].filename)
              /\ FileOnDisk(docDisk, h.out[n].path)
        /\ \A f \in h.before : f \in docDisk

C30_Witness ==
  /\ h.op = "documents"
  /\ h.done
  /\ h.before = {}
  /\ Len(h.list) = 2
  /\ h.list[1].href = DocUrlA
  /\ h.list[2].href = DocUrlB
  /\ h.okAt = <<FALSE, TRUE>>
  /\ Len(h.out) = 1
  /\ h.out[1].originalUrl = DocUrlB

====
